---- MODULE Spec2Model ----
(***************************************************************************)
(* Model of the Garmin running coach: the GarminClient statistics          *)
(* aggregation and formatters (src/garmin_client.py), the coach's prompts  *)
(* and its calls of generate (src/ai_coach.py) and the Streamlit session   *)
(* of the dashboard (src/app.py).                                          *)
(*                                                                         *)
(* Variables.  client and logged_in are the fields self.client and         *)
(* self._logged_in of the GarminClient; remote is the account's activity   *)
(* list at Garmin Connect; now is the wall clock; data_period, activities  *)
(* and session are st.session_state; ret is the last call and its result;  *)
(* loads counts the successful activity loads of the dashboard since the   *)
(* user last cleared the cache; ollama is the Ollama server and the call   *)
(* of start_ollama_server in progress.                                     *)
(*                                                                         *)
(* Specifications.  Spec: the client's calls.  SpecFilter: the running     *)
(* filter on accounts that differ in activity type.  SpecFormat: the two   *)
(* formatters.  SpecClock: the aggregation while the clock advances.       *)
(* SpecCoach: the coach's four methods.  SpecApp: the session.  SpecData:   *)
(* the nine data operations of the client.  SpecOllama: the start of the   *)
(* Ollama server, one step per statement.                                  *)
(*                                                                         *)
(* Numbers.  Python floats are modelled by exact fixed-point integers:     *)
(*   total_distance_km  in hundredths of a km   (round(x, 2))              *)
(*   total_duration_min in tenths of a minute   (round(x, 1))              *)
(*   avg_pace_min_km    in hundredths of min/km (round(x, 2))              *)
(*   avg_heart_rate     in whole beats          (round(x, 0))              *)
(* round() is round-half-to-even on the exact quotient; the model does not *)
(* reproduce the representation error of binary floating point.            *)
(*                                                                         *)
(* Dates.  A naive datetime is <<year, month, day, sec>> with sec the      *)
(* seconds since local midnight; the proleptic Gregorian ordinal is        *)
(* computed as Python's datetime computes it.                              *)
(*                                                                         *)
(* Strings holding a timestamp are records [fmt, dt, z]: fmt = "iso" is a  *)
(* well formed ISO timestamp of datetime dt (with a trailing "Z" when z),  *)
(* fmt = "text" is any text datetime.fromisoformat rejects.                *)
(***************************************************************************)
EXTENDS Integers, Sequences, FiniteSets, TLC

VARIABLES client, logged_in, remote, now, data_period, activities, ret,
          session, loads, ollama

vars == <<client, logged_in, remote, now, data_period, activities, ret,
          session, loads, ollama>>

(* ------------------------------ bounds -------------------------------- *)

\* most activities the Garmin account holds
MaxActs == 3
\* largest `weeks` argument of get_weekly_stats
MaxWeeks == 4
\* largest `months` argument of get_monthly_stats
MaxMonths == 14

(* ----------------------- datetime (library) --------------------------- *)

DT(y, mo, d, s) == [year |-> y, month |-> mo, day |-> d, sec |-> s]

IsLeap(y) == (y % 4 = 0) /\ ((y % 100 # 0) \/ (y % 400 = 0))

DaysInMonth(y, mo) ==
  IF mo = 2 THEN (IF IsLeap(y) THEN 29 ELSE 28)
  ELSE IF mo \in {4, 6, 9, 11} THEN 30 ELSE 31

DaysBeforeYear(y) ==
  (y - 1) * 365 + ((y - 1) \div 4) - ((y - 1) \div 100) + ((y - 1) \div 400)

\* days of the year before the first of month mo
DaysBeforeMonth(y, mo) ==
  <<0, 31, 59, 90, 120, 151, 181, 212, 243, 273, 304, 334>>[mo]
    + (IF mo > 2 /\ IsLeap(y) THEN 1 ELSE 0)

\* datetime.toordinal()
ToOrdinal(dt) == DaysBeforeYear(dt.year) + DaysBeforeMonth(dt.year, dt.month) + dt.day

\* datetime.fromordinal(n), keeping the time of day s
FromOrdinal(n, s) ==
  LET y  == CHOOSE yy \in (n \div 366)..((n \div 365) + 1) :
              DaysBeforeYear(yy) < n /\ n <= DaysBeforeYear(yy + 1)
      r  == n - DaysBeforeYear(y)
      mo == CHOOSE mm \in 1..12 :
              DaysBeforeMonth(y, mm) < r /\ r <= DaysBeforeMonth(y, mm) + DaysInMonth(y, mm)
  IN  DT(y, mo, r - DaysBeforeMonth(y, mo), s)

\* datetime.weekday(): Monday is 0
Weekday(dt) == (ToOrdinal(dt) + 6) % 7

\* dt - timedelta(days=k)   (k may be negative)
MinusDays(dt, k) == FromOrdinal(ToOrdinal(dt) - k, dt.sec)

\* dt.replace(hour=0, minute=0, second=0, microsecond=0)
AtMidnight(dt) == [dt EXCEPT !.sec = 0]

\* a < b and a <= b on naive datetimes (component-wise, most significant first)
DtLt(a, b) ==
  \/ a.year < b.year
  \/ a.year = b.year /\ a.month < b.month
  \/ a.year = b.year /\ a.month = b.month /\ a.day < b.day
  \/ a.year = b.year /\ a.month = b.month /\ a.day = b.day /\ a.sec < b.sec

DtLe(a, b) == DtLt(a, b) \/ a = b

(* ------------------------ timestamp strings --------------------------- *)

IsoStr(dt, z) == [fmt |-> "iso", dt |-> dt, z |-> z]

BadStr == [fmt |-> "text", dt |-> DT(1, 1, 1, 0), z |-> FALSE]

\* the default "2000-01-01" of a.get("startTimeLocal", "2000-01-01")
DefaultStart == IsoStr(DT(2000, 1, 1, 0), FALSE)

\* s.replace("Z", "")
StripZ(s) == [s EXCEPT !.z = FALSE]

\* datetime.fromisoformat(s): [ok |-> TRUE, dt] or a ValueError
FromIsoformat(s) ==
  IF s.fmt = "iso" /\ ~s.z THEN [ok |-> TRUE, dt |-> s.dt]
  ELSE [ok |-> FALSE, dt |-> s.dt]

\* dict.get(key, default)
Get(a, key, default) == IF key \in DOMAIN a THEN a[key] ELSE default

\* str.lower() on the type keys the model uses
Lower(s) ==
  CASE s = "Trail_Running" -> "trail_running"
    [] s = "RUNNING" -> "running"
    [] OTHER -> s

(* ---------------------------- arithmetic ------------------------------ *)

Max(a, b) == IF a >= b THEN a ELSE b

Min(a, b) == IF a <= b THEN a ELSE b

\* a rational number num/den, den > 0
Rat(n, d) == [num |-> n, den |-> d]

\* round(q * scale) for the rational q: nearest integer, ties to even
RoundTo(q, scale) ==
  LET n == q.num * scale
      f == n \div q.den
      r == n - f * q.den
  IN  IF 2 * r < q.den THEN f
      ELSE IF 2 * r > q.den THEN f + 1
      ELSE IF f % 2 = 0 THEN f ELSE f + 1

\* int(n / d) for d > 0: truncation towards zero
Trunc(n, d) == IF n >= 0 THEN n \div d ELSE -((-n) \div d)

\* seq[:n]
Take(seq, n) == SubSeq(seq, 1, Min(n, Len(seq)))

(* -------------------- the Garmin account (inputs) --------------------- *)

RunType == [typeKey |-> "running"]

\* The activities an account may hold, in the order the remote API lists
\* them.  An activity is a dict: a record whose domain is the keys present.
Pool == <<
  \* exactly at the start of the week of 2024-03-13
  [activityId |-> 1, startTimeLocal |-> IsoStr(DT(2024, 3, 11, 0), FALSE),
   distance |-> 5000, duration |-> 1500, averageHR |-> 150, activityType |-> RunType],
  [activityId |-> 2, startTimeLocal |-> IsoStr(DT(2024, 3, 12, 27000), TRUE),
   distance |-> 10000, duration |-> 3600, averageHR |-> 160,
   activityType |-> [typeKey |-> "Trail_Running"]],
  \* last second of that week; no distance, no heart-rate reading
  [activityId |-> 3, startTimeLocal |-> IsoStr(DT(2024, 3, 17, 86399), FALSE),
   distance |-> 0, duration |-> 600,
   activityType |-> [typeKey |-> "treadmill_running"]],
  \* Monday 1 January 2024, 00:00:00: the start of a week and of a month,
  \* and the end of the week and of the month of 2023-12-31
  [activityId |-> 4, startTimeLocal |-> IsoStr(DT(2024, 1, 1, 0), FALSE),
   distance |-> 21100, duration |-> 6330, averageHR |-> 155, activityType |-> RunType],
  \* the last second of 2023; the keys distance and averageHR are missing
  [activityId |-> 5, startTimeLocal |-> IsoStr(DT(2023, 12, 31, 86399), FALSE),
   duration |-> 300, activityType |-> [typeKey |-> "RUNNING"]],
  \* malformed start time
  [activityId |-> 6, startTimeLocal |-> BadStr,
   distance |-> 5000, duration |-> 1500, averageHR |-> 150, activityType |-> RunType],
  \* missing start time
  [activityId |-> 7,
   distance |-> 8000, duration |-> 2400, averageHR |-> 145, activityType |-> RunType],
  \* negative distance and duration
  [activityId |-> 8, startTimeLocal |-> IsoStr(DT(2024, 3, 12, 27000), FALSE),
   distance |-> -5000, duration |-> -1500, averageHR |-> 150, activityType |-> RunType],
  \* not a run
  [activityId |-> 9, startTimeLocal |-> IsoStr(DT(2024, 3, 13, 21600), FALSE),
   distance |-> 30000, duration |-> 3600, averageHR |-> 120,
   activityType |-> [typeKey |-> "cycling"]]
>>

\* the elements of seq at the indices in S, in order
RECURSIVE Pick(_, _, _)
Pick(seq, S, i) ==
  IF i > Len(seq) THEN <<>>
  ELSE (IF i \in S THEN <<seq[i]>> ELSE <<>>) \o Pick(seq, S, i + 1)

RemoteLists ==
  { Pick(Pool, S, 1) : S \in { T \in SUBSET (1..Len(Pool)) : Cardinality(T) <= MaxActs } }

\* values of the wall clock: a Wednesday morning in March, a Monday at
\* exactly midnight (1 January), the last second of a Sunday (31 December),
\* and noon of a leap day (a Thursday)
NowSet ==
  { DT(2024, 3, 13, 37800), DT(2024, 1, 1, 0), DT(2023, 12, 31, 86399),
    DT(2024, 2, 29, 43200) }

(* --------------------------- GarminClient ----------------------------- *)

\* the result of a call: the value returned, or the exception raised, and
\* the number of calls the operation made on self.client, the remote client
Ok(v) == [status |-> "ok", value |-> v, calls |-> 0]

Raise(e) == [status |-> e, value |-> <<>>, calls |-> 0]

\* the result r of a call on self.client, counted
Called(r) == [r EXCEPT !.calls = @ + 1]

\* the result r of the code that follows a call whose result was `first`
Then(first, r) == [r EXCEPT !.calls = @ + first.calls]

\* GarminClient.is_logged_in
IsLoggedIn == logged_in /\ client # "None"

\* GarminClient.get_activities(limit); net_ok: the remote call succeeds,
\* which takes a Garmin object that has logged in
GetActivities(limit, net_ok) ==
  IF ~IsLoggedIn THEN Raise("RuntimeError")
  ELSE IF ~net_ok \/ client # "Garmin" THEN Called(Raise("ConnectionError"))
  ELSE Called(Ok(Take(remote, limit)))

RunningTypes == {"running", "trail_running", "treadmill_running", "track_running"}

\* the type key compared as it is spelled, without lower()
IsRunningExact(a) ==
  Get(Get(a, "activityType", <<>>), "typeKey", "") \in RunningTypes

\* the condition of the comprehension of get_running_activities
IsRunning(a) ==
  Lower(Get(Get(a, "activityType", <<>>), "typeKey", "")) \in RunningTypes

\* GarminClient.get_running_activities(limit)
GetRunningActivities(limit, net_ok) ==
  LET fetched == GetActivities(limit * 2, net_ok)
  IN  IF fetched.status # "ok" THEN fetched
      ELSE Then(fetched, Ok(Take(SelectSeq(fetched.value, IsRunning), limit)))

\* datetime.fromisoformat(a.get("startTimeLocal", "2000-01-01").replace("Z", ""))
StartOf(a) == FromIsoformat(StripZ(Get(a, "startTimeLocal", DefaultStart)))

\* some element makes the comprehension raise ValueError
ParseFails(acts) == \E i \in 1..Len(acts) : ~StartOf(acts[i]).ok

\* the window closed at both ends: start <= t <= end
InWindowClosed(start, t, end) == DtLe(start, t) /\ DtLe(t, end)

\* start <= t < end
InWindow(start, t, end) == DtLe(start, t) /\ DtLt(t, end)

\* [a for a in acts if start <= fromisoformat(...) < end]
Within(acts, start, end) ==
  SelectSeq(acts, LAMBDA a : InWindow(start, StartOf(a).dt, end))

\* sum(a.get(key, 0) for a in acts)
RECURSIVE SumOf(_, _)
SumOf(acts, key) ==
  IF acts = <<>> THEN 0 ELSE Get(Head(acts), key, 0) + SumOf(Tail(acts), key)

\* total_distance in km and total_duration in minutes, unrounded
TotalDistance(acts) == Rat(SumOf(acts, "distance"), 1000)

TotalDuration(acts) == Rat(SumOf(acts, "duration"), 60)

\* (total_duration / total_distance) if total_distance > 0 else 0
AvgPace(total_duration, total_distance) ==
  IF total_distance.num > 0
  THEN Rat(total_duration.num * total_distance.den,
           total_duration.den * total_distance.num)
  ELSE Rat(0, 1)

\* the arithmetic mean of the paces of the activities that have a distance
\* (each pace taken to the hundredth)
BucketPaceMean(acts) ==
  LET paced == SelectSeq(acts, LAMBDA a : Get(a, "distance", 0) > 0)
      cents == [k \in 1..Len(paced) |->
                  [p |-> RoundTo(Rat(Get(paced[k], "duration", 0) * 1000,
                                     60 * Get(paced[k], "distance", 0)), 100)]]
  IN  IF Len(paced) > 0 THEN Rat(SumOf(cents, "p"), 100 * Len(paced)) ELSE Rat(0, 1)

\* avg_pace of a bucket holding the activities acts: from the two sums
BucketPace(acts) == AvgPace(TotalDuration(acts), TotalDistance(acts))

\* if a.get("averageHR"): the key is present and its value is not zero
HasHR(a) == "averageHR" \in DOMAIN a /\ a.averageHR # 0

\* every activity of the week counted in the denominator
AvgHRCountsAll(week_activities) ==
  LET with_hr == SelectSeq(week_activities, HasHR)
  IN  IF Len(week_activities) > 0
      THEN Rat(SumOf(with_hr, "averageHR"), Len(week_activities))
      ELSE Rat(0, 1)

\* the loop over week_activities: avg_hr / hr_count if hr_count > 0 else 0
AvgHR(week_activities) ==
  LET with_hr  == SelectSeq(week_activities, HasHR)
      avg_hr   == SumOf(with_hr, "averageHR")
      hr_count == Len(with_hr)
  IN  IF hr_count > 0 THEN Rat(avg_hr, hr_count) ELSE Rat(0, 1)

\* strftime("%Y-%m-%d") and strftime("%Y-%m")
Ymd(dt) == <<dt.year, dt.month, dt.day>>

Ym(dt) == <<dt.year, dt.month>>

\* week_start without the replace(hour=0, ...): the time of day of today kept
WeekStartKeepsTime(today, week_offset) ==
  MinusDays(today, Weekday(today) + 7 * week_offset)

\* week_start of the loop iteration week_offset
WeekStart(today, week_offset) ==
  AtMidnight(MinusDays(today, Weekday(today) + 7 * week_offset))

\* a week that ends with its last day: week_start + timedelta(days=6)
WeekEndSixDays(week_start) == MinusDays(week_start, -6)

\* week_end = week_start + timedelta(days=7)
WeekEnd(week_start) == MinusDays(week_start, -7)

\* One iteration of the loop of get_weekly_stats.  The fields start, end
\* and members are the locals week_start, week_end and week_activities of
\* the iteration, kept to state the properties; the others are the dict
\* appended to weekly_stats.
WeekBucket(acts, today, week_offset) ==
  LET week_start      == WeekStart(today, week_offset)
      week_end        == WeekEnd(week_start)
      week_activities == Within(acts, week_start, week_end)
      total_distance  == TotalDistance(week_activities)
      total_duration  == TotalDuration(week_activities)
  IN  [ week_start         |-> Ymd(week_start),
        week_end           |-> Ymd(week_end),
        run_count          |-> Len(week_activities),
        total_distance_km  |-> RoundTo(total_distance, 100),
        total_duration_min |-> RoundTo(total_duration, 10),
        avg_pace_min_km    |-> RoundTo(BucketPace(week_activities), 100),
        avg_heart_rate     |-> RoundTo(AvgHR(week_activities), 1),
        start   |-> week_start,
        end     |-> week_end,
        members |-> week_activities ]

\* weekly_stats kept from one call to the next instead of starting empty
GetWeeklyStatsKeepsList(weeks, today, net_ok) ==
  LET fetched == GetRunningActivities(Max(100, weeks * 7), net_ok)
      kept    == IF ret.op = "get_weekly_stats" /\ ret.status = "ok"
                    /\ Len(ret.value) <= MaxWeeks
                 THEN ret.value ELSE <<>>
  IN  IF fetched.status # "ok" THEN fetched
      ELSE IF weeks > 0 /\ ParseFails(fetched.value)
      THEN Then(fetched, Raise("ValueError"))
      ELSE Then(fetched,
                Ok(kept \o [k \in 1..weeks |-> WeekBucket(fetched.value, today, k - 1)]))

\* GarminClient.get_weekly_stats(weeks), with datetime.now() = today
GetWeeklyStats(weeks, today, net_ok) ==
  LET fetched == GetRunningActivities(Max(100, weeks * 7), net_ok)
  IN  IF fetched.status # "ok" THEN fetched
      ELSE IF weeks > 0 /\ ParseFails(fetched.value)
      THEN Then(fetched, Raise("ValueError"))
      ELSE Then(fetched, Ok([k \in 1..weeks |-> WeekBucket(fetched.value, today, k - 1)]))

\* an `if` in place of the `while`: one wrap at most
WrapMonthOnce(year, month) ==
  IF month <= 0 THEN <<year - 1, month + 12>> ELSE <<year, month>>

\* the while loop of get_monthly_stats: wrap month into 1..12
RECURSIVE WrapMonth(_, _)
WrapMonth(year, month) ==
  IF month <= 0 THEN WrapMonth(year - 1, month + 12) ELSE <<year, month>>

\* (year, month) of the loop iteration month_offset
TargetMonth(today, month_offset) == WrapMonth(today.year, today.month - month_offset)

MonthStart(year, month) == DT(year, month, 1, 0)

\* December's end without the year + 1
MonthEndSameYear(year, month) ==
  IF month = 12 THEN DT(year, 1, 1, 0) ELSE DT(year, month + 1, 1, 0)

MonthEnd(year, month) ==
  IF month = 12 THEN DT(year + 1, 1, 1, 0) ELSE DT(year, month + 1, 1, 0)

\* One iteration of the loop of get_monthly_stats (start, end, members as
\* in WeekBucket).
MonthBucket(acts, today, month_offset) ==
  LET ym               == TargetMonth(today, month_offset)
      month_start      == MonthStart(ym[1], ym[2])
      month_end        == MonthEnd(ym[1], ym[2])
      month_activities == Within(acts, month_start, month_end)
      total_distance   == TotalDistance(month_activities)
      total_duration   == TotalDuration(month_activities)
  IN  [ month              |-> Ym(month_start),
        run_count          |-> Len(month_activities),
        total_distance_km  |-> RoundTo(total_distance, 100),
        total_duration_min |-> RoundTo(total_duration, 10),
        avg_pace_min_km    |-> RoundTo(BucketPace(month_activities), 100),
        start   |-> month_start,
        end     |-> month_end,
        members |-> month_activities ]

\* GarminClient.get_monthly_stats(months), with datetime.now() = today
GetMonthlyStats(months, today, net_ok) ==
  LET fetched == GetRunningActivities(Max(200, months * 30), net_ok)
  IN  IF fetched.status # "ok" THEN fetched
      ELSE IF months > 0 /\ ParseFails(fetched.value)
      THEN Then(fetched, Raise("ValueError"))
      ELSE Then(fetched, Ok([k \in 1..months |-> MonthBucket(fetched.value, today, k - 1)]))

(* ------------------------------ AI coach ------------------------------ *)

\* f"{n:02d}"
Pad2(n) == IF 0 <= n /\ n < 10 THEN "0" \o ToString(n) ELSE ToString(n)

\* f"{pace_min}:{pace_sec:02d}" with pace_min = int(avg_pace) and
\* pace_sec = int((avg_pace - pace_min) * 60), for the rational avg_pace
PaceText(avg_pace) ==
  LET pace_min == Trunc(avg_pace.num, avg_pace.den)
      pace_sec == Trunc((avg_pace.num - pace_min * avg_pace.den) * 60, avg_pace.den)
  IN  ToString(pace_min) \o ":" \o Pad2(pace_sec)

\* f"{week['avg_heart_rate']:.0f} bpm"
HrText(avg_heart_rate) == ToString(avg_heart_rate) \o " bpm"

\* the text appended to stats_text for one week
WeekLine(week) ==
  [ week_start |-> week.week_start,
    runs       |-> week.run_count,
    distance   |-> week.total_distance_km,
    pace       |-> PaceText(Rat(week.avg_pace_min_km, 100)),
    hr         |-> HrText(week.avg_heart_rate) ]

\* the text "Unknown"
UnknownStr == [fmt |-> "text", dt |-> DT(1, 1, 1, 0), z |-> FALSE]

\* s[:10]: the date part of a timestamp string
Prefix10(s) == [s EXCEPT !.dt.sec = 0, !.z = FALSE]

\* the text appended to recent_runs for one activity
RecentLine(a) ==
  LET distance_km  == Rat(Get(a, "distance", 0), 1000)
      duration_min == Rat(Get(a, "duration", 0), 60)
  IN  [ date     |-> Prefix10(Get(a, "startTimeLocal", UnknownStr)),
        distance |-> RoundTo(distance_km, 10),
        pace     |-> PaceText(AvgPace(duration_min, distance_km)) ]

\* BaseAICoach._build_weekly_prompt(weekly_stats, activities)
BuildWeeklyPrompt(weekly_stats, acts) ==
  [ stats  |-> [k \in 1..Len(weekly_stats) |-> WeekLine(weekly_stats[k])],
    recent |-> [k \in 1..Min(5, Len(acts)) |-> RecentLine(acts[k])] ]

\* What generate(prompt) does: it returns a text, or raises an exception
\* whose str() is text.
LlmOutcomes ==
  { [raised |-> FALSE, text |-> "Nice run."],
    [raised |-> FALSE, text |-> ""],
    [raised |-> TRUE, text |-> "connection refused"],
    [raised |-> TRUE, text |-> "model not found"] }

\* the outcomes of generate tried in the session: a text, and an error
SessionLlm == { llm \in LlmOutcomes : llm.text \in {"Nice run.", "connection refused"} }

\* the except branch returning its message without the text of the error
TryGenerateNoText(what, llm) ==
  IF llm.raised THEN "Unable to generate " \o what ELSE llm.text

\* try: return self.generate(prompt)
\* except Exception as e: return f"Unable to generate {what}: {str(e)}"
TryGenerate(what, llm) ==
  IF llm.raised THEN "Unable to generate " \o what \o ": " \o llm.text ELSE llm.text

\* What a coach method did: the prompt it built, the number of calls of
\* generate it made, and the text it returned.
Answer(prompt, calls, text) == [prompt |-> prompt, calls |-> calls, text |-> text]

\* BaseAICoach.get_weekly_analysis(weekly_stats, activities)
GetWeeklyAnalysis(weekly_stats, acts, llm) ==
  Answer(BuildWeeklyPrompt(weekly_stats, acts), 1, TryGenerate("analysis", llm))

\* str(a.get(key, "N/A")) for a number or the default
GetText(a, key) == IF key \in DOMAIN a THEN ToString(a[key]) ELSE "N/A"

\* BaseAICoach._build_activity_prompt(activity): the values printed
BuildActivityPrompt(a) ==
  LET distance_km  == Rat(Get(a, "distance", 0), 1000)
      duration_min == Rat(Get(a, "duration", 0), 60)
  IN  [ date     |-> Get(a, "startTimeLocal", UnknownStr),
        distance |-> RoundTo(distance_km, 100),
        duration |-> RoundTo(duration_min, 10),
        pace     |-> PaceText(AvgPace(duration_min, distance_km)),
        hr       |-> GetText(a, "averageHR"),
        type     |-> Get(Get(a, "activityType", <<>>), "typeKey", "running") ]

\* BaseAICoach.get_activity_feedback(activity)
GetActivityFeedback(a, llm) ==
  Answer(BuildActivityPrompt(a), 1, TryGenerate("feedback", llm))

RaceDistances == {"5k", "10k", "half_marathon", "marathon"}

\* distances.get(target_distance, target_distance)
DistanceName(target_distance) ==
  CASE target_distance = "5k" -> "5 kilometers"
    [] target_distance = "10k" -> "10 kilometers"
    [] target_distance = "half_marathon" -> "21.1 kilometers (half marathon)"
    [] target_distance = "marathon" -> "42.195 kilometers (marathon)"
    [] OTHER -> target_distance

\* the text appended to recent_data for one activity
RaceLine(a) ==
  LET distance_km  == Rat(Get(a, "distance", 0), 1000)
      duration_min == Rat(Get(a, "duration", 0), 60)
  IN  [ distance |-> RoundTo(distance_km, 10),
        pace     |-> PaceText(AvgPace(duration_min, distance_km)),
        hr       |-> GetText(a, "averageHR") ]

\* BaseAICoach.get_race_prediction(recent_activities, target_distance)
GetRacePrediction(recent_activities, target_distance, llm) ==
  IF recent_activities = <<>>
  THEN Answer(<<>>, 0, "Not enough data for prediction.")
  ELSE LET recent == Take(recent_activities, 10)
       IN  Answer([ race   |-> DistanceName(target_distance),
                    recent |-> [k \in 1..Len(recent) |-> RaceLine(recent[k])] ],
                  1, TryGenerate("prediction", llm))

\* if context.get(key): the key is present and its value is not 0 (the
\* number of runs) or "" (the other two, which are texts)
Truthy(context, key) ==
  /\ key \in DOMAIN context
  /\ IF key = "runs_per_week" THEN context[key] # 0 ELSE context[key] # ""

\* BaseAICoach.get_custom_advice(question, context)
GetCustomAdvice(question, context, llm) ==
  Answer([ question |-> question,
           context  |-> { key \in {"weekly_distance", "avg_pace", "runs_per_week"} :
                            Truthy(context, key) } ],
         1, TryGenerate("advice", llm))

(* ------------------------------ dashboard ----------------------------- *)

\* DATA_PERIOD_OPTIONS
DataPeriodOptions ==
  [p \in {"1 week", "1 month", "2 months", "3 months", "6 months"} |->
     CASE p = "1 week" -> 7 [] p = "1 month" -> 30 [] p = "2 months" -> 60
       [] p = "3 months" -> 90 [] p = "6 months" -> 180]

\* the body of the try block of dashboard(): the activities to cache
LoadActivities(period, today, net_ok) ==
  LET days    == DataPeriodOptions[period]
      fetched == GetRunningActivities(Max(20, days), net_ok)
      cutoff  == MinusDays(today, days)
  IN  IF fetched.status # "ok" THEN fetched
      ELSE IF ParseFails(fetched.value) THEN Then(fetched, Raise("ValueError"))
      ELSE Then(fetched, Ok(SelectSeq(fetched.value, LAMBDA a : DtLe(cutoff, StartOf(a).dt))))

(* ------------------------------ actions ------------------------------- *)

\* the last call: its name, its argument, what it returned or raised, the
\* wall clock when it was made, and for an operation of GarminClient the
\* number of calls it made on the remote client
Ret(op, arg, r) ==
  [op |-> op, arg |-> arg, status |-> r.status, value |-> r.value, at |-> now,
   calls |-> r.calls]

\* st.session_state after init_session_state(): the fields other than
\* data_period and activities.  selected_activity is <<>> for None and <<a>>
\* for the activity a.
NoSession ==
  [logged_in |-> FALSE, garmin_client |-> "None", ai_coach |-> "None",
   selected_activity |-> <<>>, ai_backend |-> "ollama", language |-> "en"]

\* no call of start_ollama_server in progress, and the Ollama server down.
\* pc: the statement the call is at; caller: who called; call: whether
\* start_ollama_server() was entered; installed: what
\* is_ollama_installed() answered; spawned: the processes the call has
\* started; polls: the calls of is_ollama_running() made by its loop;
\* status, result: how the call ended; message: what the caller reports.
NoOllama ==
  [server |-> "down", pc |-> "idle", caller |-> "none", installed |-> FALSE,
   call |-> "none", spawned |-> 0, polls |-> 0, status |-> "none",
   result |-> FALSE, message |-> ""]

Init ==
  /\ client = "None"
  /\ logged_in = FALSE
  /\ remote \in RemoteLists
  /\ now \in NowSet
  /\ data_period = "1 month"
  /\ activities = <<>>
  /\ ret = Ret("none", 0, Ok(<<>>))
  /\ session = NoSession
  /\ loads = 0
  /\ ollama = NoOllama

\* GarminClient.login(): the remote login succeeds, fails authentication,
\* or raises another error.  self.client is replaced first, by a Garmin
\* object that is "Garmin" once its login() has completed and "GarminNew"
\* before.
Login ==
  \E outcome \in {"ok", "GarminConnectAuthenticationError", "ConnectionError"} :
    /\ client' = IF outcome = "ok" THEN "Garmin" ELSE "GarminNew"
    /\ logged_in' = CASE outcome = "ok" -> TRUE
                      [] outcome = "GarminConnectAuthenticationError" -> FALSE
                      [] OTHER -> logged_in
    /\ ret' = Ret("login", 0, IF outcome = "ok" THEN Ok(<<>>) ELSE Raise(outcome))
    /\ UNCHANGED <<remote, now, data_period, activities, session, loads, ollama>>

\* a call of get_weekly_stats(weeks)
WeeklyStats ==
  \E weeks \in 1..MaxWeeks, net_ok \in BOOLEAN :
    /\ ret' = Ret("get_weekly_stats", weeks, GetWeeklyStats(weeks, now, net_ok))
    /\ UNCHANGED <<client, logged_in, remote, now, data_period, activities, session, loads, ollama>>

\* the `months` arguments tried: the shortest and the longest histories
MonthsArgs == {1, 2, MaxMonths}

\* a call of get_monthly_stats(months)
MonthlyStats ==
  \E months \in MonthsArgs, net_ok \in BOOLEAN :
    /\ ret' = Ret("get_monthly_stats", months, GetMonthlyStats(months, now, net_ok))
    /\ UNCHANGED <<client, logged_in, remote, now, data_period, activities, session, loads, ollama>>

\* dashboard(), "Load activities if not cached": an exception is caught and
\* shown, and the cache is left empty
DashboardLoad ==
  \E net_ok \in BOOLEAN :
    LET r == LoadActivities(data_period, now, net_ok)
    IN  /\ IsLoggedIn
        /\ activities = <<>>
        /\ activities' = IF r.status = "ok" THEN r.value ELSE activities
        /\ ret' = Ret("dashboard_load", 0, r)
        /\ UNCHANGED <<client, logged_in, remote, now, data_period, session, loads, ollama>>

\* the number of weeks the Weekly Analysis tab asks for
AnalysisWeeks == 4

\* render_ai_analysis_tab(), "Generate Weekly Analysis" pressed
WeeklyAnalysis ==
  \E net_ok \in BOOLEAN, llm \in SessionLlm :
    LET r == GetWeeklyStats(AnalysisWeeks, now, net_ok)
    IN  /\ IsLoggedIn
        /\ ret' = Ret("weekly_analysis", AnalysisWeeks,
                      IF r.status # "ok" THEN r
                      ELSE Ok(<<GetWeeklyAnalysis(r.value, Take(activities, 10), llm)>>))
        /\ UNCHANGED <<client, logged_in, remote, now, data_period, activities, session, loads, ollama>>

\* the sidebar's Refresh Data button
Refresh ==
  /\ IsLoggedIn
  /\ activities # <<>>
  /\ activities' = <<>>
  /\ UNCHANGED <<client, logged_in, remote, now, data_period, ret, session, loads, ollama>>

Next ==
  \/ Login
  \/ WeeklyStats
  \/ MonthlyStats
  \/ DashboardLoad
  \/ WeeklyAnalysis
  \/ Refresh

Spec == Init /\ [][Next]_vars

(* ============================ properties ============================== *)

Range(seq) == { seq[i] : i \in 1..Len(seq) }

WeeklyOk == ret.op = "get_weekly_stats" /\ ret.status = "ok"

MonthlyOk == ret.op = "get_monthly_stats" /\ ret.status = "ok"

\* the running activities the client fetched from the account
FetchedRuns == SelectSeq(remote, IsRunning)

\* a is strictly before b, by calendar day number and then time of day
Before(a, b) ==
  \/ ToOrdinal(a) < ToOrdinal(b)
  \/ ToOrdinal(a) = ToOrdinal(b) /\ a.sec < b.sec

\* 1 January 2024, a Monday, as a day number
KnownMonday == ToOrdinal(DT(2024, 1, 1, 0))

\* C1: an activity is counted in a weekly bucket iff its start time is at or
\* after the bucket's weekStart and strictly before its weekEnd, and
\* run_count is the number of such activities.
C1_WeeklyHalfOpen ==
  WeeklyOk =>
    \A k \in 1..Len(ret.value) :
      LET b == ret.value[k]
          inside == { a \in Range(FetchedRuns) :
                        ~Before(StartOf(a).dt, b.start) /\ Before(StartOf(a).dt, b.end) }
      IN  Range(b.members) = inside /\ b.run_count = Cardinality(inside)

\* C1 happens: one activity starts exactly at the weekStart of a bucket, and
\* is counted there, and exactly at the weekEnd of the bucket before, and is
\* not counted there.
C1_Witness ==
  /\ WeeklyOk
  /\ \E k \in 1..Len(ret.value), j \in 1..Len(ret.value) :
       \E a \in Range(FetchedRuns) :
         /\ StartOf(a).dt = ret.value[k].start
         /\ a \in Range(ret.value[k].members)
         /\ StartOf(a).dt = ret.value[j].end
         /\ a \notin Range(ret.value[j].members)
         /\ ret.value[k].run_count = 1

\* C2: the first weekly bucket starts on the Monday at 00:00:00 on or before
\* now, less than 7 days before now, and every bucket ends exactly 7 days
\* after it starts.
C2_WeekStartsMonday ==
  WeeklyOk =>
    /\ LET b == ret.value[1]
       IN  /\ (ToOrdinal(b.start) - KnownMonday) % 7 = 0
           /\ b.start.sec = 0
           /\ ~Before(now, b.start)
           /\ ToOrdinal(now) - ToOrdinal(b.start) < 7
           /\ b.week_start = <<b.start.year, b.start.month, b.start.day>>
    /\ \A k \in 1..Len(ret.value) :
         /\ ToOrdinal(ret.value[k].end) = ToOrdinal(ret.value[k].start) + 7
         /\ ret.value[k].end.sec = ret.value[k].start.sec

\* C2 happens: now is Wednesday 13 March 2024, 10:30, and the first bucket
\* starts on Monday 11 March at midnight.
C2_Witness ==
  /\ WeeklyOk
  /\ now = DT(2024, 3, 13, 37800)
  /\ ret.value[1].start = DT(2024, 3, 11, 0)
  /\ ret.value[1].end = DT(2024, 3, 18, 0)

\* C3: N trailing months give exactly N buckets, most recent first, labelled
\* with the N consecutive calendar months that end at the month of now,
\* month always in 1..12.
C3_MonthsConsecutive ==
  MonthlyOk =>
    /\ Len(ret.value) = ret.arg
    /\ \A k \in 1..Len(ret.value) :
         LET label == ret.value[k].month
         IN  /\ label[2] \in 1..12
             /\ label[1] * 12 + label[2] = now.year * 12 + now.month - (k - 1)

\* C3 happens: 14 months from a March anchor reach back to February of the
\* year before.
C3_Witness ==
  /\ MonthlyOk
  /\ ret.arg = 14
  /\ now.month = 3
  /\ ret.value[1].month = <<2024, 3>>
  /\ ret.value[3].month = <<2024, 1>>
  /\ ret.value[4].month = <<2023, 12>>
  /\ ret.value[14].month = <<2023, 2>>

\* C4: a monthly bucket counts exactly the activities that start in its
\* calendar month; it starts on the first of the month at midnight and ends
\* where the next more recent bucket starts (a December bucket on 1 January
\* of the next year); no activity is counted in two buckets.
C4_MonthlyBoundaries ==
  MonthlyOk =>
    /\ \A k \in 1..Len(ret.value) :
         LET b == ret.value[k]
         IN  /\ b.start = DT(b.month[1], b.month[2], 1, 0)
             /\ Range(b.members) =
                  { a \in Range(FetchedRuns) :
                      /\ StartOf(a).dt.year = b.month[1]
                      /\ StartOf(a).dt.month = b.month[2] }
             /\ b.run_count = Cardinality(Range(b.members))
             /\ b.month[2] = 12 => b.end = DT(b.month[1] + 1, 1, 1, 0)
             /\ k > 1 => b.end = ret.value[k - 1].start
    /\ \A k \in 1..Len(ret.value), j \in 1..Len(ret.value) :
         k # j => Range(ret.value[k].members) \cap Range(ret.value[j].members) = {}

\* C4 happens: a December bucket counts the run of 31 December 23:59:59 and
\* not the run of 1 January 00:00:00, which the January bucket counts.
C4_Witness ==
  /\ MonthlyOk
  /\ Len(ret.value) >= 2
  /\ ret.value[2].month = <<2023, 12>>
  /\ ret.value[2].end = DT(2024, 1, 1, 0)
  /\ \E a \in Range(ret.value[2].members) : StartOf(a).dt = DT(2023, 12, 31, 86399)
  /\ \E a \in Range(ret.value[1].members) : StartOf(a).dt = DT(2024, 1, 1, 0)

\* the sum of f[i] over the indices in S
RECURSIVE SumOver(_, _)
SumOver(f, S) ==
  IF S = {} THEN 0
  ELSE LET i == CHOOSE j \in S : TRUE IN f[i] + SumOver(f, S \ {i})

Abs(n) == IF n >= 0 THEN n ELSE -n

\* v is an integer nearest to the quotient n / d, d > 0
Nearest(v, n, d) == 2 * Abs(v * d - n) <= d

AnyStatsOk == WeeklyOk \/ MonthlyOk

\* C5: a bucket without activities has run_count 0 and total distance 0, and
\* its average pace and its average heart rate are a no-data value that is
\* not 0.
C5_EmptyBucketSentinel ==
  /\ AnyStatsOk =>
       \A k \in 1..Len(ret.value) :
         ret.value[k].members = <<>> =>
           /\ ret.value[k].run_count = 0
           /\ ret.value[k].total_distance_km = 0
           /\ ret.value[k].avg_pace_min_km # 0
  /\ WeeklyOk =>
       \A k \in 1..Len(ret.value) :
         ret.value[k].members = <<>> => ret.value[k].avg_heart_rate # 0

\* C6: no activity's start time makes get_weekly_stats, get_monthly_stats or
\* the dashboard's window filter raise: with a logged-in client and the
\* remote call answered, the operation returns, and no activity with a
\* malformed or missing start time is counted in a bucket or kept by the
\* window filter.
C6_BadStartExcluded ==
  ret.op \in {"get_weekly_stats", "get_monthly_stats", "dashboard_load"} =>
    /\ ret.status # "ValueError"
    /\ AnyStatsOk =>
         \A k \in 1..Len(ret.value) :
           \A a \in Range(ret.value[k].members) :
             "startTimeLocal" \in DOMAIN a /\ a.startTimeLocal.fmt = "iso"
    /\ (ret.op = "dashboard_load" /\ ret.status = "ok") =>
         \A a \in Range(ret.value) :
           "startTimeLocal" \in DOMAIN a /\ a.startTimeLocal.fmt = "iso"

\* the indices of the members of bucket b that have a heart-rate reading
WithReading(b) ==
  { i \in 1..Len(b.members) :
      "averageHR" \in DOMAIN b.members[i] /\ b.members[i].averageHR > 0 }

\* C7: the average heart rate of a weekly bucket is the mean, to the nearest
\* beat, of the readings of its activities that have one, and 0 (the code's
\* no-data value) when none has.
C7_AvgHROverReadings ==
  WeeklyOk =>
    \A k \in 1..Len(ret.value) :
      LET b  == ret.value[k]
          hr == [i \in 1..Len(b.members) |-> Get(b.members[i], "averageHR", 0)]
          n  == Cardinality(WithReading(b))
      IN  IF n = 0 THEN b.avg_heart_rate = 0
          ELSE Nearest(b.avg_heart_rate, SumOver(hr, WithReading(b)), n)

\* C7 happens: a week of three runs with readings 150, 160 and none
\* averages 155.
C7_Witness ==
  /\ WeeklyOk
  /\ \E k \in 1..Len(ret.value) :
       LET b == ret.value[k]
       IN  /\ b.run_count = 3
           /\ { Get(a, "averageHR", 0) : a \in Range(b.members) } = {150, 160, 0}
           /\ \E a \in Range(b.members) : "averageHR" \notin DOMAIN a
           /\ b.avg_heart_rate = 155

\* C8: the average pace of a bucket is the sum of the durations (minutes)
\* over the sum of the distances (km), to the hundredth, when the distance
\* sum is positive, and 0 otherwise.
C8_PaceFromSums ==
  AnyStatsOk =>
    \A k \in 1..Len(ret.value) :
      LET b       == ret.value[k]
          idx     == 1..Len(b.members)
          meters  == SumOver([i \in idx |-> Get(b.members[i], "distance", 0)], idx)
          seconds == SumOver([i \in idx |-> Get(b.members[i], "duration", 0)], idx)
      IN  IF meters > 0
          THEN Nearest(b.avg_pace_min_km, seconds * 100000, 60 * meters)
          ELSE b.avg_pace_min_km = 0

\* C8 happens: 5 km in 25:00 and 10 km in 60:00 in one week average
\* 5.67 min/km (85 min over 15 km), not the 5.50 that the mean of 5.00 and
\* 6.00 gives; and a week whose only run has distance 0 has pace 0.
C8_Witness ==
  /\ WeeklyOk
  /\ \E k \in 1..Len(ret.value) :
       LET b == ret.value[k]
       IN  /\ b.run_count = 2
           /\ { <<a.distance, a.duration>> : a \in Range(b.members) } =
                { <<5000, 1500>>, <<10000, 3600>> }
           /\ b.avg_pace_min_km = 567

\* C8 happens, the zero-distance case: a week whose runs all have distance 0
\* has average pace 0.
C8_WitnessZeroDistance ==
  /\ WeeklyOk
  /\ \E k \in 1..Len(ret.value) :
       LET b == ret.value[k]
       IN  /\ b.run_count > 0
           /\ \A a \in Range(b.members) : Get(a, "distance", 0) = 0
           /\ b.total_duration_min > 0
           /\ b.avg_pace_min_km = 0

\* C9: an activity with a negative distance or duration is counted in no
\* bucket, and every bucket's total distance and total duration are >= 0.
C9_NegativeExcluded ==
  AnyStatsOk =>
    \A k \in 1..Len(ret.value) :
      /\ ret.value[k].total_distance_km >= 0
      /\ ret.value[k].total_duration_min >= 0
      /\ \A a \in Range(ret.value[k].members) :
           Get(a, "distance", 0) >= 0 /\ Get(a, "duration", 0) >= 0

AnalysisOk == ret.op = "weekly_analysis" /\ ret.status = "ok"

\* C10: the weekly prompt never shows the pace "0:00" or the heart rate
\* "0 bpm": not for a week, and not for a recent run.
C10_NoZeroInPrompt ==
  AnalysisOk =>
    LET prompt == ret.value[1].prompt
    IN  /\ \A k \in 1..Len(prompt.stats) :
             prompt.stats[k].pace # "0:00" /\ prompt.stats[k].hr # "0 bpm"
        /\ \A k \in 1..Len(prompt.recent) : prompt.recent[k].pace # "0:00"

(* ==================== get_running_activities (C11) ==================== *)

\* the longest account of the filter's specification, and the largest limit
FilterActs == 4

MaxLimit == 2

\* activities that differ in their type only: the four running types, two of
\* them in other capitals, another sport, a type without a key, and no type
TypePool == <<
  [activityId |-> 11, activityType |-> [typeKey |-> "running"]],
  [activityId |-> 12, activityType |-> [typeKey |-> "Trail_Running"]],
  [activityId |-> 13, activityType |-> [typeKey |-> "treadmill_running"]],
  [activityId |-> 14, activityType |-> [typeKey |-> "track_running"]],
  [activityId |-> 15, activityType |-> [typeKey |-> "RUNNING"]],
  [activityId |-> 16, activityType |-> [typeKey |-> "cycling"]],
  [activityId |-> 17, activityType |-> [typeId |-> 1]],
  [activityId |-> 18, distance |-> 5000]
>>

TypeLists ==
  { Pick(TypePool, S, 1) :
      S \in { T \in SUBSET (1..Len(TypePool)) : Cardinality(T) <= FilterActs } }

InitFilter ==
  /\ client = "None"
  /\ logged_in = FALSE
  /\ remote \in TypeLists
  /\ now = DT(2024, 3, 13, 37800)
  /\ data_period = "1 month"
  /\ activities = <<>>
  /\ ret = Ret("none", 0, Ok(<<>>))
  /\ session = NoSession
  /\ loads = 0
  /\ ollama = NoOllama

\* a call of get_running_activities(limit)
RunningActivities ==
  \E limit \in 1..MaxLimit, net_ok \in BOOLEAN :
    /\ ret' = Ret("get_running_activities", limit, GetRunningActivities(limit, net_ok))
    /\ UNCHANGED <<client, logged_in, remote, now, data_period, activities, session, loads, ollama>>

NextFilter ==
  \/ Login
  \/ RunningActivities

SpecFilter == InitFilter /\ [][NextFilter]_vars

\* the activity has a type key that is, in lower case, a running type
HasRunningKey(a) ==
  /\ "activityType" \in DOMAIN a
  /\ "typeKey" \in DOMAIN a.activityType
  /\ \E t \in RunningTypes : Lower(a.activityType.typeKey) = t

\* the positions, among the 2 * limit activities fetched, of the runs
RunPositions(limit) ==
  { i \in 1..Min(2 * limit, Len(remote)) : HasRunningKey(remote[i]) }

\* the k-th smallest element of the set of positions P
Kth(P, k) == CHOOSE i \in P : Cardinality({ j \in P : j <= i }) = k

RunningOk == ret.op = "get_running_activities" /\ ret.status = "ok"

\* C11: a successful get_running_activities(limit) returns the fetched
\* activities whose type key is, case-insensitively, one of the four running
\* types, in the order fetched and cut to the first `limit` of them; an
\* activity of another type or without a type key is left out, and the call
\* fails only when the client is not logged in or the fetch fails.
C11_RunningFilter ==
  ret.op = "get_running_activities" =>
    /\ ret.status \in {"ok", "RuntimeError", "ConnectionError"}
    /\ ret.status = "RuntimeError" => ~IsLoggedIn
    /\ ret.status = "ok" =>
         LET P == RunPositions(ret.arg)
         IN  /\ Len(ret.value) = Min(ret.arg, Cardinality(P))
             /\ \A k \in 1..Len(ret.value) : ret.value[k] = remote[Kth(P, k)]

\* four activities fetched for limit 2: one without a type is left out, and
\* of the three runs, one of them spelled in capitals, the first two are kept
C11_Witness ==
  /\ RunningOk
  /\ ret.arg = 2
  /\ Cardinality(RunPositions(2)) = 3
  /\ \E i \in 1..Len(remote) : "activityType" \notin DOMAIN remote[i]
  /\ \E k \in 1..Len(ret.value) : ret.value[k].activityType.typeKey = "Trail_Running"

(* ================ format_duration, format_pace (C12, C13) ============= *)

\* the durations formatted: every one up to MaxDuration seconds, and chosen
\* ones of up to MaxHours hours; the slowest pace formatted, in
\* sixty-fourths of a minute per km
MaxDuration == 130

MaxHours == 2

MaxPaceSteps == 416

\* hours, minutes and seconds all taken from the whole duration
DurationFieldsNoWrap(d) ==
  [hours |-> d \div 3600, minutes |-> d \div 60, seconds |-> d % 60]

\* hours = int(d // 3600), minutes = int((d % 3600) // 60), seconds = int(d % 60)
DurationFields(d) ==
  [hours |-> d \div 3600, minutes |-> (d % 3600) \div 60, seconds |-> d % 60]

\* format_duration(duration_seconds) for a whole number of seconds: the text,
\* and beside it the three numbers it was printed from
FormatDuration(d) ==
  IF d <= 0 THEN [text |-> "0:00", hours |-> 0, minutes |-> 0, seconds |-> 0]
  ELSE LET f == DurationFields(d)
       IN  [text |-> IF f.hours > 0
                     THEN ToString(f.hours) \o ":" \o Pad2(f.minutes) \o ":" \o Pad2(f.seconds)
                     ELSE ToString(f.minutes) \o ":" \o Pad2(f.seconds),
            hours |-> f.hours, minutes |-> f.minutes, seconds |-> f.seconds]

\* the seconds rounded to the nearest whole second
PaceFieldsRounded(pace) ==
  LET m == Trunc(pace.num, pace.den)
  IN  [minutes |-> m, seconds |-> RoundTo(Rat((pace.num - m * pace.den) * 60, pace.den), 1)]

\* minutes = int(pace), seconds = int((pace - minutes) * 60)
PaceFields(pace) ==
  LET m == Trunc(pace.num, pace.den)
  IN  [minutes |-> m, seconds |-> Trunc((pace.num - m * pace.den) * 60, pace.den)]

\* format_pace(pace_min_per_km) for the rational pace
FormatPace(pace) ==
  IF pace.num <= 0 THEN [text |-> "--:--", minutes |-> 0, seconds |-> 0]
  ELSE LET f == PaceFields(pace)
       IN  [text |-> ToString(f.minutes) \o ":" \o Pad2(f.seconds),
            minutes |-> f.minutes, seconds |-> f.seconds]

\* the pace of a period without distance, as the aggregation computes it
NoPace == AvgPace(Rat(10, 1), Rat(0, 1))

\* Paces that binary floating point holds exactly (multiples of 1/64), so
\* that the exact arithmetic of the model is the arithmetic of the float.
PaceInputs == { Rat(n, 64) : n \in (-2)..MaxPaceSteps } \cup {NoPace}

\* whole seconds: negative, zero, every short duration, and for each number
\* of hours the minutes and seconds at the ends of their ranges and on
\* either side of two digits
DurationInputs ==
  (-2)..MaxDuration \cup
  { h * 3600 + m * 60 + s : h \in 0..MaxHours, m \in {0, 1, 2, 9, 10, 59},
                            s \in {0, 1, 5, 9, 10, 59} }

InitFormat ==
  /\ client = "None"
  /\ logged_in = FALSE
  /\ remote = <<>>
  /\ now = DT(2024, 3, 13, 37800)
  /\ data_period = "1 month"
  /\ activities = <<>>
  /\ ret = Ret("none", 0, Ok(<<>>))
  /\ session = NoSession
  /\ loads = 0
  /\ ollama = NoOllama

\* a call of format_duration(d)
CallFormatDuration ==
  \E d \in DurationInputs :
    /\ ret' = Ret("format_duration", d, Ok(<<FormatDuration(d)>>))
    /\ UNCHANGED <<client, logged_in, remote, now, data_period, activities, session, loads, ollama>>

\* a call of format_pace(pace)
CallFormatPace ==
  \E pace \in PaceInputs :
    /\ ret' = Ret("format_pace", pace, Ok(<<FormatPace(pace)>>))
    /\ UNCHANGED <<client, logged_in, remote, now, data_period, activities, session, loads, ollama>>

NextFormat ==
  \/ CallFormatDuration
  \/ CallFormatPace

SpecFormat == InitFormat /\ [][NextFormat]_vars

\* n in 0..99 written with two digits
TwoDigits(n) == ToString(n \div 10) \o ToString(n % 10)

\* C12: format_duration gives "0:00" for a non-positive input; for s > 0
\* whole seconds it prints H:MM:SS when s >= 3600 and M:SS otherwise, from
\* fields with minutes and seconds in 0..59 that recombine to s;
\* 125 gives "2:05" and 3725 gives "1:02:05".
C12_FormatDuration ==
  ret.op = "format_duration" =>
    LET s == ret.arg
        v == ret.value[1]
    IN  /\ ret.status = "ok"
        /\ s <= 0 => v.text = "0:00"
        /\ s > 0 =>
             /\ v.hours = s \div 3600
             /\ v.minutes \in 0..59
             /\ v.seconds \in 0..59
             /\ v.hours * 3600 + v.minutes * 60 + v.seconds = s
             /\ v.text = IF s >= 3600
                         THEN ToString(v.hours) \o ":" \o TwoDigits(v.minutes)
                                \o ":" \o TwoDigits(v.seconds)
                         ELSE ToString(v.minutes) \o ":" \o TwoDigits(v.seconds)
        /\ s = 125 => v.text = "2:05"
        /\ s = 3725 => v.text = "1:02:05"

\* a duration over an hour whose minutes and seconds both need padding
C12_Witness ==
  /\ ret.op = "format_duration"
  /\ ret.arg = 3725
  /\ ret.value[1].text = "1:02:05"

\* C13: format_pace gives "--:--" for the no-pace value of the aggregation
\* and for every non-positive pace; for a positive pace it prints M:SS with
\* M the whole minutes (truncated) and SS the whole seconds (truncated) of
\* the remainder, two digits in 00..59; 5.5 gives "5:30"; it never raises.
C13_FormatPace ==
  ret.op = "format_pace" =>
    LET p == ret.arg
        v == ret.value[1]
    IN  /\ ret.status = "ok"
        /\ (p.num <= 0 \/ p = NoPace) => v.text = "--:--"
        /\ p.num > 0 =>
             /\ v.minutes * p.den <= p.num
             /\ p.num < (v.minutes + 1) * p.den
             /\ v.seconds * p.den <= (p.num - v.minutes * p.den) * 60
             /\ (p.num - v.minutes * p.den) * 60 < (v.seconds + 1) * p.den
             /\ v.seconds \in 0..59
             /\ v.text = ToString(v.minutes) \o ":" \o TwoDigits(v.seconds)
        /\ 2 * p.num = 11 * p.den => v.text = "5:30"

\* a pace just under 6 min/km: 5 + 63/64 is printed 5:59, not 6:00
C13_Witness ==
  /\ ret.op = "format_pace"
  /\ ret.arg = Rat(383, 64)
  /\ ret.value[1].text = "5:59"

(* ============ the aggregation and the wall clock (C14, C15) =========== *)

\* the longest account of the specification in which the clock advances
ClockActs == 2

InitClock ==
  /\ Init
  /\ Len(remote) <= ClockActs

\* time passes: the wall clock moves on to a later value
Tick ==
  /\ \E t \in NowSet : DtLt(now, t) /\ now' = t
  /\ UNCHANGED <<client, logged_in, remote, data_period, activities, ret, session, loads, ollama>>

NextClock ==
  \/ Login
  \/ WeeklyStats
  \/ MonthlyStats
  \/ Tick

SpecClock == InitClock /\ [][NextClock]_vars

StatsOps == {"get_weekly_stats", "get_monthly_stats"}

\* this step is a successful aggregation that follows a successful one of
\* the same kind with the same N, over the same account
SameCallAgain ==
  /\ ret.op \in StatsOps
  /\ ret.status = "ok"
  /\ ret'.op = ret.op
  /\ ret'.status = "ok"
  /\ ret'.arg = ret.arg
  /\ remote' = remote

C15_PureOfArguments ==
  [][SameCallAgain => ret'.value = ret.value]_vars

(* ================= the coach and generate(prompt) (C19) ================ *)

\* the longest activity list handed to the coach
CoachActs == 1

CoachLists == { l \in RemoteLists : Len(l) <= CoachActs }

\* the weekly statistics of the runs among acts, as get_weekly_stats(1)
\* returns them on 2024-03-13
StatsOf(acts) ==
  LET runs == SelectSeq(acts, IsRunning)
  IN  IF ParseFails(runs) THEN <<>>
      ELSE <<WeekBucket(runs, DT(2024, 3, 13, 37800), 0)>>

\* the context dicts the Ask Coach tab builds
Contexts ==
  { <<>>, [weekly_distance |-> "12.5", runs_per_week |-> 3],
    [weekly_distance |-> "0.0", runs_per_week |-> 0] }

InitCoach == InitFormat

\* the call made and the outcome of generate, kept as the argument of ret
CoachArg(input, llm) == [input |-> input, llm |-> llm]

\* a call of get_activity_feedback(activity)
ActivityFeedback ==
  \E i \in 1..Len(Pool), llm \in LlmOutcomes :
    /\ ret' = Ret("get_activity_feedback", CoachArg(<<Pool[i]>>, llm),
                  Ok(<<GetActivityFeedback(Pool[i], llm)>>))
    /\ UNCHANGED <<client, logged_in, remote, now, data_period, activities, session, loads, ollama>>

\* a call of get_weekly_analysis(weekly_stats, activities)
CoachWeeklyAnalysis ==
  \E acts \in CoachLists, llm \in LlmOutcomes :
    /\ ret' = Ret("get_weekly_analysis", CoachArg(acts, llm),
                  Ok(<<GetWeeklyAnalysis(StatsOf(acts), acts, llm)>>))
    /\ UNCHANGED <<client, logged_in, remote, now, data_period, activities, session, loads, ollama>>

\* a call of get_race_prediction(recent_activities, target_distance)
RacePrediction ==
  \E acts \in CoachLists, target \in RaceDistances, llm \in LlmOutcomes :
    /\ ret' = Ret("get_race_prediction", CoachArg(acts, llm),
                  Ok(<<GetRacePrediction(acts, target, llm)>>))
    /\ UNCHANGED <<client, logged_in, remote, now, data_period, activities, session, loads, ollama>>

\* a call of get_custom_advice(question, context)
CustomAdvice ==
  \E question \in {"How do I get faster?", "?"}, context \in Contexts,
     llm \in LlmOutcomes :
    /\ ret' = Ret("get_custom_advice", CoachArg(<<context>>, llm),
                  Ok(<<GetCustomAdvice(question, context, llm)>>))
    /\ UNCHANGED <<client, logged_in, remote, now, data_period, activities, session, loads, ollama>>

NextCoach ==
  \/ ActivityFeedback
  \/ CoachWeeklyAnalysis
  \/ RacePrediction
  \/ CustomAdvice

SpecCoach == InitCoach /\ [][NextCoach]_vars

CoachOps ==
  {"get_activity_feedback", "get_weekly_analysis", "get_race_prediction",
   "get_custom_advice"}

\* the text t begins with the text pre
StartsWith(t, pre) == Len(t) >= Len(pre) /\ SubSeq(t, 1, Len(pre)) = pre

\* the text t ends with the text post
EndsWith(t, post) ==
  Len(t) >= Len(post) /\ SubSeq(t, Len(t) - Len(post) + 1, Len(t)) = post

\* C19: none of the four coach methods lets an exception of generate(prompt)
\* out: when generate raises they return a text that starts with "Unable to
\* generate" and carries the text of the error, otherwise exactly the text
\* generate returned; get_race_prediction of an empty list returns "Not
\* enough data for prediction." and does not call generate.
C19_GenerateGuarded ==
  ret.op \in CoachOps =>
    LET llm == ret.arg.llm
        v   == ret.value[1]
        short == ret.op = "get_race_prediction" /\ ret.arg.input = <<>>
    IN  /\ ret.status = "ok"
        /\ short => v.calls = 0 /\ v.text = "Not enough data for prediction."
        /\ ~short =>
             /\ v.calls = 1
             /\ llm.raised =>
                  /\ StartsWith(v.text, "Unable to generate")
                  /\ EndsWith(v.text, ": " \o llm.text)
             /\ ~llm.raised => v.text = llm.text

\* generate raised "connection refused" under get_race_prediction of a
\* non-empty list, and the method returned its message
C19_Witness ==
  /\ ret.op = "get_race_prediction"
  /\ ret.arg.input # <<>>
  /\ ret.arg.llm = [raised |-> TRUE, text |-> "connection refused"]
  /\ ret.value[1].text = "Unable to generate prediction: connection refused"

(* ================== the Streamlit session (C16, C17) ================== *)

\* the longest account of the session's specification, and the most
\* activity loads counted
AppActs == 1

MaxLoads == 2

\* the session starts on a Wednesday morning, 2024-03-13
InitApp ==
  /\ Init
  /\ now = DT(2024, 3, 13, 37800)
  /\ Len(remote) <= AppActs

Backends == {"ollama", "gemini"}

\* LANGUAGE_OPTIONS
Languages == {"en", "ko"}

\* login_page(), the form submitted with the backend and the language
\* chosen.  filled: the credentials and what the backend needs are there;
\* otherwise an error is shown and nothing else is done.  Then a new
\* GarminClient logs in and the coach is created; every exception is caught
\* and shown.  A client whose login failed is dropped.
LoginPage ==
  \E ai_backend \in Backends, language \in Languages, filled \in BOOLEAN,
     outcome \in {"ok", "GarminConnectAuthenticationError", "ConnectionError"},
     coach_ok \in BOOLEAN :
    /\ ~session.logged_in
    /\ ~filled => outcome = "ok" /\ coach_ok
    /\ client' = IF filled /\ outcome = "ok" THEN "Garmin" ELSE client
    /\ logged_in' = IF filled /\ outcome = "ok" THEN TRUE ELSE logged_in
    /\ session' =
         IF ~filled \/ outcome # "ok" THEN session
         ELSE IF ~coach_ok THEN [session EXCEPT !.garmin_client = "client"]
         ELSE [session EXCEPT !.garmin_client = "client", !.ai_coach = "coach",
                              !.ai_backend = ai_backend, !.language = language,
                              !.logged_in = TRUE]
    /\ ret' = Ret("login_page", 0,
                  Ok(<<IF ~filled THEN "Please enter your Garmin credentials."
                       ELSE IF outcome # "ok" THEN "Login failed: " \o outcome
                       ELSE IF ~coach_ok THEN "Login failed: ImportError"
                       ELSE "Login successful!">>))
    /\ UNCHANGED <<remote, now, data_period, activities, loads, ollama>>

\* the data periods selected: the shortest, the default and the longest
PeriodArgs == {"1 week", "1 month", "6 months"}

\* dashboard(), the Data Period selector moved: the cache is cleared
ChangePeriod ==
  \E new_period \in PeriodArgs :
    /\ session.logged_in
    /\ new_period # data_period
    /\ data_period' = new_period
    /\ activities' = <<>>
    /\ loads' = 0
    /\ UNCHANGED <<client, logged_in, remote, now, ret, session, ollama>>

\* dashboard(), Refresh Data pressed
RefreshData ==
  /\ session.logged_in
  /\ activities' = <<>>
  /\ loads' = 0
  /\ UNCHANGED <<client, logged_in, remote, now, data_period, ret, session, ollama>>

\* Logout that keeps the activity selected
LogoutKeepsSelection ==
  /\ session.logged_in
  /\ session' = [session EXCEPT !.logged_in = FALSE, !.garmin_client = "None",
                                !.ai_coach = "None"]
  /\ activities' = <<>>
  /\ loads' = 0
  /\ client' = "None"
  /\ logged_in' = FALSE
  /\ UNCHANGED <<remote, now, data_period, ret, ollama>>

\* dashboard(), Logout pressed; the client object is dropped
Logout ==
  /\ session.logged_in
  /\ session' = [session EXCEPT !.logged_in = FALSE, !.garmin_client = "None",
                                !.ai_coach = "None", !.selected_activity = <<>>]
  /\ activities' = <<>>
  /\ loads' = 0
  /\ client' = "None"
  /\ logged_in' = FALSE
  /\ UNCHANGED <<remote, now, data_period, ret, ollama>>

\* render_statistics_tab(): "ok", or the exception one of its two calls raised
StatisticsTab(period, today, weekly_ok, monthly_ok) ==
  LET days    == DataPeriodOptions[period]
      weekly  == GetWeeklyStats(Max(1, days \div 7), today, weekly_ok)
      monthly == GetMonthlyStats(Max(1, days \div 30), today, monthly_ok)
  IN  IF weekly.status # "ok" THEN weekly.status ELSE monthly.status

\* the context the Ask Coach tab builds from the cached activities
AskContext(acts) ==
  IF acts = <<>> THEN <<>>
  ELSE [ weekly_distance |->
           ToString(RoundTo(Rat(SumOf(Take(acts, 7), "distance"), 1000), 10)),
         runs_per_week |-> Min(Len(acts), 7) ]

\* What the user did to start this run of the script: nothing, the AI
\* Language selector of the sidebar moved, or one of the buttons of the page
\* (i: the activity of the list whose button it was).
Events ==
  [ button : {"none", "language", "back", "weekly_analysis", "race_prediction",
              "ask_coach"},
    i : {0} ]
  \cup [ button : {"select"}, i : 1..MaxActs ]

\* the sidebar's language selector: the session after it
LanguageSelector(event) ==
  IF event.button = "language"
  THEN [session EXCEPT !.language = CHOOSE l \in Languages : l # @]
  ELSE session

\* The remote call that fails in this run, if one does.
Failures == {"none", "load", "weekly", "monthly", "analysis"}

\* render_ai_analysis_tab() with the button pressed: the text shown, or the
\* exception raised
AnalysisTab(button, acts, today, fail, llm) ==
  IF session.ai_coach = "None" \/ session.garmin_client = "None"
  THEN Ok(<<"Please login first.">>)
  ELSE CASE button = "weekly_analysis" ->
              LET r == GetWeeklyStats(AnalysisWeeks, today, fail # "analysis")
              IN  IF r.status # "ok" THEN Raise(r.status)
                  ELSE Ok(<<GetWeeklyAnalysis(r.value, Take(acts, 10), llm).text>>)
         [] button = "race_prediction" ->
              Ok(<<GetRacePrediction(acts, "5k", llm).text>>)
         [] button = "ask_coach" ->
              Ok(<<GetCustomAdvice("How do I get faster?", AskContext(acts), llm).text>>)
         [] OTHER -> Ok(<<>>)

\* One run of dashboard() that none of the sidebar's buttons ends: the
\* language selector, the activity load when the cache is empty, then the
\* detail view or the three tabs.  ret.arg is the button
\* pressed; ret.status is "ok" when the run ended normally and otherwise the
\* exception that left it; ret.value is the text shown.
Dashboard ==
  \E fail \in Failures :
  \E load \in {LoadActivities(data_period, now, fail # "load")},
     stats \in {StatisticsTab(data_period, now, fail # "weekly", fail # "monthly")} :
    LET needed == activities = <<>>
        acts   == IF needed /\ load.status = "ok" THEN load.value ELSE activities
        sel    == session.selected_activity
    IN  /\ session.logged_in
        /\ needed => loads < MaxLoads
        /\ activities' = acts
        /\ loads' = IF needed /\ load.status = "ok" THEN loads + 1 ELSE loads
        /\ UNCHANGED <<client, logged_in, remote, now, data_period, ollama>>
        /\ \E event \in Events, llm \in SessionLlm :
             IF needed /\ load.status # "ok"
             THEN /\ event.button \in {"none", "language"}
                  /\ ret' = Ret("dashboard", event.button,
                                Ok(<<"Error loading activities: " \o load.status>>))
                  /\ session' = LanguageSelector(event)
             ELSE IF sel # <<>>
             THEN /\ event.button \in {"none", "language", "back"}
                  /\ session' = IF event.button = "back"
                                 THEN [session EXCEPT !.selected_activity = <<>>]
                                 ELSE LanguageSelector(event)
                  /\ ret' = Ret("dashboard", event.button,
                                IF event.button = "back" THEN Ok(<<>>)
                                ELSE IF session.ai_coach = "None"
                                THEN Ok(<<"AI Coach not available.">>)
                                ELSE Ok(<<GetActivityFeedback(sel[1], llm).text>>))
             ELSE IF event.button = "select"
             THEN /\ event.i <= Len(acts)
                  /\ session' = [session EXCEPT !.selected_activity = <<acts[event.i]>>]
                  /\ ret' = Ret("dashboard", event.button, Ok(<<>>))
             ELSE /\ event.button # "back"
                  /\ ret' = Ret("dashboard", event.button,
                                IF stats # "ok" THEN Raise(stats)
                                ELSE AnalysisTab(event.button, acts, now, fail, llm))
                  /\ session' = LanguageSelector(event)

NextApp ==
  \/ LoginPage
  \/ ChangePeriod
  \/ RefreshData
  \/ Logout
  \/ Dashboard

SpecApp == InitApp /\ [][NextApp]_vars

\* the exceptions of the collaborators: the Garmin fetch and the LLM
CollaboratorErrors == {"ConnectionError"}

\* C16: a failure of a collaborator during a run of the logged-in dashboard
\* degrades to a message: the exception does not leave the run.
C16_FailureDegrades ==
  ret.op = "dashboard" => ret.status \notin CollaboratorErrors

\* C17: after a successful activity load, whatever it returned, the
\* dashboard loads the activities again only after the user changed the
\* data period, pressed Refresh or logged out: there is at most one
\* successful load between two of these.
C17_LoadedOnce == loads <= 1

(* ================= the weekly buckets together (C18) ================== *)

\* the buckets of ret that count the activity a
BucketsOf(a) == { k \in 1..Len(ret.value) : a \in Range(ret.value[k].members) }

\* the start of the activity a lies in the range the buckets of ret cover
InCoveredRange(a) ==
  /\ ~Before(StartOf(a).dt, ret.value[Len(ret.value)].start)
  /\ Before(StartOf(a).dt, ret.value[1].end)

\* C18: get_weekly_stats(N), N >= 1, returns N buckets, the most recent
\* first, each starting 7 days before the one before it and ending where
\* that one starts, the first holding now: they tile the N weeks that end
\* with the week of now.  A fetched run that starts in these weeks is counted
\* in exactly one bucket, any other in none, and the run_counts add up to
\* the number of fetched runs that start in these weeks.
C18_WeeksTile ==
  WeeklyOk =>
    LET b == ret.value
    IN  /\ Len(b) = ret.arg
        /\ ~Before(now, b[1].start)
        /\ Before(now, b[1].end)
        /\ \A k \in 2..Len(b) :
             /\ ToOrdinal(b[k].start) = ToOrdinal(b[k - 1].start) - 7
             /\ b[k].start.sec = b[k - 1].start.sec
             /\ b[k].end = b[k - 1].start
        /\ \A a \in Range(FetchedRuns) :
             Cardinality(BucketsOf(a)) = IF InCoveredRange(a) THEN 1 ELSE 0
        /\ SumOver([k \in 1..Len(b) |-> b[k].run_count], 1..Len(b)) =
             Cardinality({ i \in 1..Len(FetchedRuns) : InCoveredRange(FetchedRuns[i]) })

\* at Monday 2024-01-01 00:00 the run that starts at that instant is in the
\* first bucket, the run of the second before is in the second bucket, and
\* a third run is outside the weeks asked for
C18_Witness ==
  /\ WeeklyOk
  /\ ret.arg >= 2
  /\ now = DT(2024, 1, 1, 0)
  /\ \E a \in Range(ret.value[1].members) : StartOf(a).dt = DT(2024, 1, 1, 0)
  /\ \E a \in Range(ret.value[2].members) : StartOf(a).dt = DT(2023, 12, 31, 86399)
  /\ \E a \in Range(FetchedRuns) : BucketsOf(a) = {}

(* ===================== login and is_logged_in (C20) =================== *)

\* C20: is_logged_in is true exactly when the most recent login() call
\* completed: false before any login and after a login() that raised,
\* whatever it raised and whatever the client was before, so that no fetch
\* is issued on a Garmin object that did not complete its login.
C20_LoggedInIffLastLoginOk == IsLoggedIn <=> client = "Garmin"

(* ------------------ the data operations of GarminClient --------------- *)

DataActs == 1

\* what the remote client does with a call about one activity: it returns
\* a dictionary that has the lap list, one that has none, or raises
RemoteReplies ==
  { [raised |-> FALSE, data |-> [activityId |-> 1, lapDTOs |-> <<[distance |-> 1000]>>]],
    [raised |-> FALSE, data |-> [activityId |-> 1]],
    [raised |-> TRUE, data |-> <<>>] }

\* a call on self.client about one activity: it succeeds on a Garmin object
\* that has logged in, when the remote does not raise
RemoteCall(reply) ==
  IF reply.raised \/ client # "Garmin" THEN Called(Raise("ConnectionError"))
  ELSE Called(Ok(reply.data))

\* try: return <the remote call>  except Exception: return [] (or {}); an
\* empty list and an empty dictionary are both <<>>
Swallowed(r) == IF r.status # "ok" THEN Then(r, Ok(<<>>)) ELSE r

\* GarminClient.get_activity_details(activity_id)
GetActivityDetails(activity_id, reply) ==
  IF ~IsLoggedIn THEN Raise("RuntimeError")
  ELSE RemoteCall(reply)

\* GarminClient.get_activity_hr_data(activity_id)
GetActivityHrData(activity_id, reply) ==
  IF ~IsLoggedIn THEN Raise("RuntimeError")
  ELSE Swallowed(RemoteCall(reply))

\* GarminClient.get_activity_splits(activity_id)
GetActivitySplits(activity_id, reply) ==
  IF ~IsLoggedIn THEN Raise("RuntimeError")
  ELSE LET details == RemoteCall(reply)
       IN  Swallowed(IF details.status # "ok" THEN details
                     ELSE Then(details, Ok(Get(details.value, "lapDTOs", <<>>))))

\* GarminClient.get_activity_hr_zones(activity_id)
GetActivityHrZones(activity_id, reply) ==
  IF ~IsLoggedIn THEN Raise("RuntimeError")
  ELSE Swallowed(RemoteCall(reply))

\* the login check made inside the try block, so that its error is
\* swallowed like a remote one
GetActivityWeatherCheckInTry(activity_id, reply) ==
  Swallowed(IF ~IsLoggedIn THEN Raise("RuntimeError") ELSE RemoteCall(reply))

\* GarminClient.get_activity_weather(activity_id)
GetActivityWeather(activity_id, reply) ==
  IF ~IsLoggedIn THEN Raise("RuntimeError")
  ELSE Swallowed(RemoteCall(reply))

InitData ==
  /\ Init
  /\ now = DT(2024, 3, 13, 37800)
  /\ Len(remote) <= DataActs

\* a call of get_activities(limit)
FetchActivities ==
  \E limit \in 1..MaxLimit, net_ok \in BOOLEAN :
    /\ ret' = Ret("get_activities", limit, GetActivities(limit, net_ok))
    /\ UNCHANGED <<client, logged_in, remote, now, data_period, activities, session, loads, ollama>>

ActivityIds == {1}

\* a call of one of the five operations on one activity
ActivityData ==
  \E activity_id \in ActivityIds, reply \in RemoteReplies :
    \E call \in { <<"get_activity_details", GetActivityDetails(activity_id, reply)>>,
                  <<"get_activity_hr_data", GetActivityHrData(activity_id, reply)>>,
                  <<"get_activity_splits", GetActivitySplits(activity_id, reply)>>,
                  <<"get_activity_hr_zones", GetActivityHrZones(activity_id, reply)>>,
                  <<"get_activity_weather", GetActivityWeather(activity_id, reply)>> } :
      /\ ret' = Ret(call[1], activity_id, call[2])
      /\ UNCHANGED <<client, logged_in, remote, now, data_period, activities, session, loads, ollama>>

NextData ==
  \/ Login
  \/ FetchActivities
  \/ RunningActivities
  \/ WeeklyStats
  \/ MonthlyStats
  \/ ActivityData

SpecData == InitData /\ [][NextData]_vars

DataOps ==
  { "get_activities", "get_running_activities", "get_activity_details",
    "get_activity_hr_data", "get_activity_splits", "get_activity_hr_zones",
    "get_activity_weather", "get_weekly_stats", "get_monthly_stats" }

\* C21: a data operation called on a client that is not logged in raises
\* RuntimeError, makes no call on the remote client, and leaves the client
\* (its remote client object and its logged-in flag) as it was; this holds
\* for each of the nine data operations, the ones that swallow remote errors
\* included.
C21_NotLoggedInRaises ==
  [][(~IsLoggedIn /\ ret'.op \in DataOps) =>
       /\ ret'.status = "RuntimeError"
       /\ ret'.calls = 0
       /\ client' = client
       /\ logged_in' = logged_in]_vars

\* get_activity_weather has raised RuntimeError on a client whose login
\* failed, without a call on the remote client
C21_Witness ==
  /\ ret.op = "get_activity_weather"
  /\ ret.status = "RuntimeError"
  /\ ret.calls = 0
  /\ client = "GarminNew"
  /\ ~IsLoggedIn

(* ================== the session's login fields (C22) ================== *)

\* C22: over any sequence of login attempts, runs of the dashboard and
\* logouts, the session's garmin_client and ai_coach are both None while
\* logged_in is False and both set while it is True; so a login attempt
\* that fails leaves the three fields as they were.
C22_SessionConsistent ==
  /\ ~session.logged_in =>
       session.garmin_client = "None" /\ session.ai_coach = "None"
  /\ session.logged_in =>
       session.garmin_client # "None" /\ session.ai_coach # "None"

(* ================== the activity selected (C23) ======================= *)

\* C23: whenever an activity is selected, the session is logged in and the
\* selected activity is one of the cached activities, those of the data
\* period selected; this holds after any sequence of selecting an activity,
\* going back, changing the data period, Refresh and Logout.
C23_SelectedIsCached ==
  session.selected_activity # <<>> =>
    /\ session.logged_in
    /\ session.selected_activity[1] \in Range(activities)

\* the dashboard has run again after the data period changed and shows the
\* detail view of an activity that the reloaded list does not have
C23_StaleDetail ==
  /\ session.selected_activity # <<>>
  /\ ret.op = "dashboard" /\ ret.arg = "none"
  /\ loads = 1
  /\ session.selected_activity[1] \notin Range(activities)

(* ============================ Logout (C24) ============================ *)

\* the step that logs the session out
LoggedOut == session.logged_in /\ ~session'.logged_in

\* C24: Logout sets logged_in to False, garmin_client and ai_coach to None,
\* activities to the empty list and selected_activity to None, and leaves
\* ai_backend, language and data_period as they were; while the session is
\* logged out a run of the script is the login page, never the dashboard,
\* and the activities are not fetched: the cache stays empty until a login
\* has succeeded.
C24_Logout ==
  [][/\ LoggedOut =>
          /\ session'.garmin_client = "None"
          /\ session'.ai_coach = "None"
          /\ session'.selected_activity = <<>>
          /\ activities' = <<>>
          /\ session'.ai_backend = session.ai_backend
          /\ session'.language = session.language
          /\ data_period' = data_period
     /\ ~session.logged_in =>
          /\ ret'.op = "login_page"
          /\ activities' = activities
          /\ loads' = loads
          /\ session'.logged_in => ret'.value = <<"Login successful!">>]_vars

\* logged out after a session that used Gemini, Korean and one week of
\* data, had loaded activities and shown the dashboard
C24_Witness ==
  /\ ~session.logged_in
  /\ session.garmin_client = "None" /\ session.ai_coach = "None"
  /\ session.selected_activity = <<>> /\ activities = <<>>
  /\ session.ai_backend = "gemini" /\ session.language = "ko"
  /\ data_period = "1 week"
  /\ ret.op = "dashboard"

(* ==================== starting the Ollama server ====================== *)

\* for _ in range(10)
ReadinessPolls == 10

OtherVars ==
  <<client, logged_in, remote, now, data_period, activities, ret, session, loads>>

\* the Ollama server comes up or goes down, whoever started or stopped it
ServerChanges ==
  /\ ollama' = [ollama EXCEPT !.server = IF @ = "up" THEN "down" ELSE "up"]
  /\ UNCHANGED OtherVars

\* start_ollama_server() or ensure_ollama_ready() returns r, and the caller
\* reports it
Return(caller, r, text) ==
  [ollama EXCEPT !.pc = "done", !.caller = caller, !.status = "ok",
                 !.result = r, !.message = text]

\* what the caller reports when start_ollama_server() has returned r
Report(caller, r) ==
  IF caller = "ensure_ollama_ready"
  THEN IF r THEN "started" ELSE "start_failed"
  ELSE IF r THEN "Ollama started successfully!" ELSE "Failed to start Ollama."

\* start_ollama_server() up to its loop.  installed: the answer of
\* is_ollama_installed(); popen: subprocess.Popen starts the process or
\* raises, and what it raises is caught.
EnterStart(caller, installed, popen) ==
  IF ~installed \/ popen # "ok"
  THEN [Return(caller, FALSE, Report(caller, FALSE)) EXCEPT
          !.installed = installed, !.call = "start_ollama_server"]
  ELSE [ollama EXCEPT !.pc = "sleep", !.caller = caller, !.installed = TRUE,
                      !.call = "start_ollama_server", !.spawned = @ + 1]

\* login_page(), the Start Ollama button pressed
StartOllama ==
  \E installed \in BOOLEAN, popen \in {"ok", "OSError"} :
    /\ ollama.pc = "idle"
    /\ ollama' = EnterStart("login_page", installed, popen)
    /\ UNCHANGED OtherVars

\* ensure_ollama_ready(): its two checks, and then start_ollama_server(),
\* which asks again whether Ollama is installed
EnsureOllamaReady ==
  \E installed \in BOOLEAN, again \in BOOLEAN, popen \in {"ok", "OSError"} :
    /\ ollama.pc = "idle"
    /\ ollama' =
         IF ~installed
         THEN Return("ensure_ollama_ready", FALSE, "not_installed")
         ELSE IF ollama.server = "up"
         THEN Return("ensure_ollama_ready", TRUE, "running")
         ELSE EnterStart("ensure_ollama_ready", again, popen)
    /\ UNCHANGED OtherVars

\* time.sleep(1)
Sleep ==
  /\ ollama.pc = "sleep"
  /\ ollama' = [ollama EXCEPT !.pc = "poll"]
  /\ UNCHANGED OtherVars

\* the loop that polls once more than range(10) does
PollOneMore ==
  /\ ollama.pc = "poll"
  /\ ollama' =
       IF ollama.server = "up"
       THEN [Return(ollama.caller, TRUE, Report(ollama.caller, TRUE)) EXCEPT
               !.polls = @ + 1]
       ELSE IF ollama.polls + 1 < ReadinessPolls + 1
       THEN [ollama EXCEPT !.pc = "sleep", !.polls = @ + 1]
       ELSE [Return(ollama.caller, FALSE, Report(ollama.caller, FALSE)) EXCEPT
               !.polls = @ + 1]
  /\ UNCHANGED OtherVars

\* if is_ollama_running(): return True, and the end of the loop
Poll ==
  /\ ollama.pc = "poll"
  /\ ollama' =
       IF ollama.server = "up"
       THEN [Return(ollama.caller, TRUE, Report(ollama.caller, TRUE)) EXCEPT
               !.polls = @ + 1]
       ELSE IF ollama.polls + 1 < ReadinessPolls
       THEN [ollama EXCEPT !.pc = "sleep", !.polls = @ + 1]
       ELSE [Return(ollama.caller, FALSE, Report(ollama.caller, FALSE)) EXCEPT
               !.polls = @ + 1]
  /\ UNCHANGED OtherVars

\* the caller goes on; the next call starts afresh
Done ==
  /\ ollama.pc = "done"
  /\ ollama' = [NoOllama EXCEPT !.server = ollama.server]
  /\ UNCHANGED OtherVars

InitOllama == InitFormat

NextOllama ==
  \/ ServerChanges
  \/ StartOllama
  \/ EnsureOllamaReady
  \/ Sleep
  \/ Poll
  \/ Done

\* a call in progress goes on: the script's thread runs
SpecOllama ==
  InitOllama /\ [][NextOllama]_vars /\ WF_vars(Sleep) /\ WF_vars(Poll)

\* start_ollama_server() is running
InStart == ollama.pc \in {"sleep", "poll"}

\* start_ollama_server() has returned
Started == ollama.pc = "done" /\ ollama.call = "start_ollama_server"

\* C25: a call of start_ollama_server ends, after at most 10 polls of
\* is_ollama_running: it returns False without starting a process and
\* without a poll when Ollama is not installed, True at the first poll that
\* finds the server running, False after the 10th poll that does not or
\* when starting the process raised; no exception leaves it.
C25_StartTerminates ==
  /\ [](ollama.polls <= 10 /\ ollama.spawned <= 1)
  /\ [](Started =>
          /\ ollama.status = "ok"
          /\ ~ollama.installed =>
               ~ollama.result /\ ollama.spawned = 0 /\ ollama.polls = 0
          /\ ollama.result => ollama.spawned = 1 /\ ollama.polls \in 1..10
          /\ (~ollama.result /\ ollama.spawned = 1) => ollama.polls = 10)
  /\ [][(ollama.pc = "poll" /\ ollama'.polls = ollama.polls + 1) =>
          IF ollama.server = "up" THEN Started' /\ ollama'.result
          ELSE ollama'.pc = "done" <=> ollama'.polls = 10]_vars
  /\ (InStart ~> Started)

\* the server came up in time for the 10th poll, the last one
C25_Witness ==
  /\ Started
  /\ ollama.result
  /\ ollama.polls = 10
  /\ ollama.caller = "ensure_ollama_ready"

====
